---- MODULE Spec2Model ----
(***************************************************************************)
(* The DORA dashboard's metrics engine (client/src/lib/dora-calculations,  *)
(* kept in summary-cards.tsx): the time-window filter filterDataByDays and *)
(* the derivation calculateDoraMetrics, over a record store whose arrays   *)
(* live in a heap so that aliasing and in-place sorting are visible.       *)
(*                                                                         *)
(* Time is counted in half days (Day = 2 units), so that Math.ceil over a  *)
(* number of days and the window boundaries both have cases.  JavaScript   *)
(* numbers are modelled as exact rationals <<numerator, denominator>>.     *)
(***************************************************************************)
EXTENDS Integers, Sequences, FiniteSets, TLC

VARIABLES data, heap, filteredData, timeFilter, metrics, thrown, loading, effect,
          csvText, repoMetrics, isLoading, error, lastUpdated, timePeriod, requests,
          githubMetrics, responses, inFlight

\* The state of the Dashboard page, of the CSV RepoSummary page and of the
\* GitHub-API RepoSummary page.
dashboardVars ==
    <<data, heap, filteredData, timeFilter, metrics, thrown, loading, effect>>
csvVars ==
    <<csvText, repoMetrics, isLoading, error, lastUpdated, timePeriod, requests>>

githubVars ==
    <<githubMetrics, responses, inFlight>>

vars == <<dashboardVars, csvVars, githubVars>>

(***************************************************************************)
(* Bounds of the model.                                                    *)
(***************************************************************************)
MaxDeployments == 3
MaxRollups == 3
MaxIncidents == 2
MaxEvents == 1
MaxRows == 3
MaxFailures == 3
MaxCsvRows == 2
MaxFetches == 3
MaxRepos == 2
MaxCycles == 2

(***************************************************************************)
(* Time.                                                                   *)
(***************************************************************************)
Day == 2
Now == 1000
Windows == {7, 30, 90}
\* timeFilterDays is a number of days, or null ("All Time"), written 0 here.
Null == 0
Undefined == <<"undefined">>
TimeFilters == Windows \cup {Null}

(***************************************************************************)
(* Exact rational arithmetic for JavaScript numbers.                       *)
(***************************************************************************)
Abs(n) == IF n < 0 THEN -n ELSE n

RECURSIVE GCD(_, _)
GCD(a, b) == IF b = 0 THEN a ELSE GCD(b, a % b)

Rat(n, d) ==
    LET g == GCD(Abs(n), Abs(d))
        s == IF d < 0 THEN -1 ELSE 1
    IN  IF n = 0 THEN <<0, 1>> ELSE <<(s * n) \div g, (s * d) \div g>>

Num(n) == <<n, 1>>
Zero == <<0, 1>>
RAdd(x, y) == Rat(x[1] * y[2] + y[1] * x[2], x[2] * y[2])
RSub(x, y) == Rat(x[1] * y[2] - y[1] * x[2], x[2] * y[2])
RMul(x, y) == Rat(x[1] * y[1], x[2] * y[2])
RDiv(x, y) == Rat(x[1] * y[2], x[2] * y[1])
RLt(x, y) == x[1] * y[2] < y[1] * x[2]
RLe(x, y) == x[1] * y[2] <= y[1] * x[2]
RMaxOf(x, y) == IF RLt(x, y) THEN y ELSE x
RMinOf(x, y) == IF RLt(y, x) THEN y ELSE x

RECURSIVE RSum(_)
RSum(s) == IF s = <<>> THEN Zero ELSE RAdd(s[1], RSum(Tail(s)))

RECURSIVE RMax(_)
RMax(s) == IF Len(s) = 1 THEN s[1] ELSE RMaxOf(s[1], RMax(Tail(s)))

RECURSIVE RMin(_)
RMin(s) == IF Len(s) = 1 THEN s[1] ELSE RMinOf(s[1], RMin(Tail(s)))

RECURSIVE Sum(_)
Sum(s) == IF s = <<>> THEN 0 ELSE s[1] + Sum(Tail(s))

Ceil(n, d) == -((-n) \div d)
Max(a, b) == IF a > b THEN a ELSE b

(***************************************************************************)
(* Array helpers: Array.prototype.reverse, and the stable Array.prototype  *)
(* .sort under the comparator (a, b) => key(b) - key(a), given the keys of *)
(* the rows.                                                               *)
(***************************************************************************)
Reverse(s) == [i \in 1..Len(s) |-> s[Len(s) + 1 - i]]

SortDescBy(rows, keys) ==
    LET n == Len(rows)
        rank(i) == 1 + Cardinality({j \in 1..n :
                        keys[j] > keys[i] \/ (keys[j] = keys[i] /\ j < i)})
    IN  [p \in 1..n |-> rows[CHOOSE i \in 1..n : rank(i) = p]]

SeqsUpTo(S, n) == UNION {[1..k -> S] : k \in 0..n}

(***************************************************************************)
(* The record store (DoraData).  Every array lives in the heap under an    *)
(* array id; a collection of the store or of a view is an array id, or     *)
(* Undefined when the optional collection is absent.                       *)
(***************************************************************************)
Optional == {"dora_summary_daily", "fact_pr", "fact_incident", "dora_events"}
Collections == {"fact_deployment"} \cup Optional
StoreId(c) == <<"data", c>>
ViewId(c) == <<"view", c>>
ArrayIds == {StoreId(c) : c \in Collections} \cup {ViewId(c) : c \in Collections}

Deployment(id, created, lead, state, actor) ==
    [deployment_id |-> id, created_at_utc |-> created,
     finished_at_utc |-> created + lead, state |-> state, actor |-> actor]
PullRequest(id, merged, author) ==
    [pr_number |-> id, pr_merged_at_utc |-> merged, author |-> author]
Incident(id, created, minutes) ==
    [incident_id |-> id, created_utc |-> created, duration_minutes |-> minutes]
Event(id, type, when) ==
    [event_id |-> id, event_type |-> type, when_utc |-> when]
Rollup(date, deploys, failed, cfr, lt, mttr) ==
    [date |-> date, deploys |-> deploys, failed_deploys |-> failed, cfr |-> cfr,
     avg_lt_hours |-> lt, mttr_min |-> mttr]

(***************************************************************************)
(* The inputs: stores drawn from pools of records that cover the window    *)
(* boundaries, the five deployment states, non-positive durations, equal   *)
(* timestamps and zero-deploy rollup rows.  Ids are the rows' positions.   *)
(***************************************************************************)
DeploymentPool ==
    { Deployment(0, Now - 1, 1, "success", "alice"),
      Deployment(0, Now - 5, 3, "failure", "bob"),
      Deployment(0, Now - 5, 0, "inactive", "alice"),
      Deployment(0, Now - 7 * Day - 1, -1, "error", "bob"),
      Deployment(0, Now - 30 * Day - 1, 2, "pending", "carol") }

RollupPool ==
    { Rollup(Now - 3, 2, 1, <<1, 2>>, 4, 60),
      Rollup(Now - 1, 4, 0, <<0, 1>>, 2, 0),
      Rollup(Now - 5, 0, 0, <<0, 1>>, 0, 30),
      Rollup(Now - 7 * Day - 1, 1, 1, <<1, 1>>, 6, 60) }

IncidentPool ==
    { Incident(0, Now - 2, 90), Incident(0, Now - 7 * Day - 2, 30) }

EventPool ==
    { Event(0, "incident", Now - 1), Event(0, "deployment", Now - 1) }

FilterTimes == {Now - 90 * Day - 1, Now - 7 * Day - 1, Now - 7 * Day, Now + 1}

DeploymentIds(s) == [i \in 1..Len(s) |-> [s[i] EXCEPT !.deployment_id = i]]
IncidentIds(s) == [i \in 1..Len(s) |-> [s[i] EXCEPT !.incident_id = i]]
EventIds(s) == [i \in 1..Len(s) |-> [s[i] EXCEPT !.event_id = i]]
\* An optional collection of the JSON document: present with rows, or absent.
Present(rows) == <<rows>>
Absent == <<>>
OrAbsent(S) == {Present(s) : s \in S} \cup {Absent}

Snapshot(dep, sum, pr, inc, ev) ==
    [fact_deployment |-> Present(dep), dora_summary_daily |-> sum, fact_pr |-> pr,
     fact_incident |-> inc, dora_events |-> ev]

\* Raw-record stores: no rollups, deployments in any order.
DeploymentStores ==
    { Snapshot(DeploymentIds(dep), sum, Absent, Absent, Absent) :
        dep \in SeqsUpTo(DeploymentPool, MaxDeployments),
        sum \in {Absent, Present(<<>>)} }

\* Stores with daily rollups, in any order.
RollupStores ==
    { Snapshot(dep, sum, Absent, inc, Absent) :
        dep \in {<<>>, DeploymentIds(<<Deployment(0, Now - 5, 3, "failure", "bob"),
                                      Deployment(0, Now - 1, 1, "success", "alice")>>)},
        sum \in OrAbsent(SeqsUpTo(RollupPool, MaxRollups)),
        inc \in {Absent, Present(IncidentIds(<<Incident(0, Now - 2, 90)>>))} }

\* Stores with incidents and events, in any order.
IncidentStores ==
    { Snapshot(dep, Absent, Absent, inc, ev) :
        dep \in {<<>>, DeploymentIds(<<Deployment(0, Now - 1, 1, "success", "alice")>>)},
        inc \in OrAbsent({IncidentIds(s) : s \in SeqsUpTo(IncidentPool, MaxIncidents)}),
        ev \in OrAbsent({EventIds(s) : s \in SeqsUpTo(EventPool, MaxEvents)}) }

\* Stores with any subset of the optional collections present, every
\* collection holding one row per timestamp of ts.
SparseStores ==
    { Snapshot(
        [i \in 1..Len(ts) |-> Deployment(i, ts[i], 1, "success", "alice")],
        IF "dora_summary_daily" \in present
            THEN Present([i \in 1..Len(ts) |-> Rollup(ts[i], i, 0, <<0, 1>>, 2, 60)])
            ELSE Absent,
        IF "fact_pr" \in present
            THEN Present([i \in 1..Len(ts) |-> PullRequest(i, ts[i], "alice")])
            ELSE Absent,
        IF "fact_incident" \in present
            THEN Present([i \in 1..Len(ts) |-> Incident(i, ts[i], 60)])
            ELSE Absent,
        IF "dora_events" \in present
            THEN Present([i \in 1..Len(ts) |-> Event(i, "incident", ts[i])])
            ELSE Absent) :
        ts \in SeqsUpTo(FilterTimes, MaxRows), present \in SUBSET Optional }

\* Stores of failed deployments around the 30-day periods: current of them
\* created half a day ago, previous of them half a day before the 30-day
\* cutoff, upcoming of them half a day after now, and passed successful
\* deployments created half a day ago.
PeriodRows(current, previous, upcoming, passed) ==
    [i \in 1..current |-> Deployment(0, Now - 1, 1, "failure", "bob")]
    \o [i \in 1..previous |-> Deployment(0, Now - 30 * Day - 1, 1, "error", "bob")]
    \o [i \in 1..upcoming |-> Deployment(0, Now + 1, 1, "failure", "bob")]
    \o [i \in 1..passed |-> Deployment(0, Now - 1, 1, "success", "alice")]

PeriodStores ==
    { Snapshot(DeploymentIds(PeriodRows(current, previous, upcoming, passed)),
               Absent, Absent, Absent, Absent) :
        current \in 0..MaxFailures, previous \in 0..MaxFailures,
        upcoming \in 0..1, passed \in {0, 4, 5} }

Stores ==
    DeploymentStores \cup RollupStores \cup IncidentStores \cup SparseStores
        \cup PeriodStores

\* Input snapshots in which any of the five collections, the deployments
\* included, may be absent.
PartialStores ==
    { [fact_deployment |->
           IF "fact_deployment" \in present
               THEN Present([i \in 1..Len(ts) |-> Deployment(i, ts[i], 1, "success", "alice")])
               ELSE Absent,
       dora_summary_daily |->
           IF "dora_summary_daily" \in present
               THEN Present([i \in 1..Len(ts) |-> Rollup(ts[i], i, 0, <<0, 1>>, 2, 60)])
               ELSE Absent,
       fact_pr |->
           IF "fact_pr" \in present
               THEN Present([i \in 1..Len(ts) |-> PullRequest(i, ts[i], "alice")])
               ELSE Absent,
       fact_incident |->
           IF "fact_incident" \in present
               THEN Present([i \in 1..Len(ts) |-> Incident(i, ts[i], 60)])
               ELSE Absent,
       dora_events |->
           IF "dora_events" \in present
               THEN Present([i \in 1..Len(ts) |-> Event(i, "incident", ts[i])])
               ELSE Absent] :
        ts \in SeqsUpTo(FilterTimes, MaxRows), present \in SUBSET Collections }

\* What a call threw, if it threw.
NoError == "none"
TypeError == "TypeError"

\* Before the first filter there is no view; before a derivation of the
\* current view there is no snapshot (metrics is <<>>, else <<snapshot>>).
NoView == [c \in Collections |-> Undefined]
NoMetrics == <<>>

\* loadDoraData: the store is the imported JSON document.
loadDoraData(doc) ==
    [c \in Collections |-> IF doc[c] = Absent THEN Undefined ELSE StoreId(c)]

Loaded(doc) ==
    /\ data = loadDoraData(doc)
    /\ heap = [a \in ArrayIds |->
                 IF a[1] = "data" /\ doc[a[2]] # Absent THEN doc[a[2]][1] ELSE <<>>]
    /\ filteredData = NoView
    /\ timeFilter = Null
    /\ metrics = NoMetrics
    /\ thrown = NoError
    /\ loading = FALSE
    /\ effect = "done"

\* The repository summary page before its first fetch.
NoMessage == <<>>
InitialTimePeriod == 30

NotFetched ==
    /\ csvText = <<>>
    /\ repoMetrics = <<>>
    /\ isLoading = TRUE
    /\ error = NoMessage
    /\ lastUpdated = NoMessage
    /\ timePeriod = InitialTimePeriod
    /\ requests = <<>>

\* The GitHub-API repository summary page (repo-summary.tsx) before its
\* first refresh: the first MaxRepos entries of REPOS, all counts 0.
REPOS ==
    SubSeq(<<[name |-> "Focus-Bear/web_dashboard", displayName |-> "Web Dashboard"],
             [name |-> "Focus-Bear/dora_pipeline", displayName |-> "Backend"],
             [name |-> "Focus-Bear/dora_mobile", displayName |-> "Mobile"],
             [name |-> "Focus-Bear/dora_mac", displayName |-> "Mac"],
             [name |-> "Focus-Bear/dora_windows", displayName |-> "Windows"]>>,
           1, MaxRepos)

InitialRepoMetrics ==
    [i \in 1..Len(REPOS) |->
        [repoName |-> REPOS[i].name,
         displayName |-> REPOS[i].displayName,
         prsOpened |-> 0,
         prsMerged |-> 0,
         issuesReadyForQA |-> 0,
         issuesQACompleted |-> 0,
         isLoading |-> FALSE,
         error |-> NoMessage]]

NotRefreshed ==
    /\ githubMetrics = InitialRepoMetrics
    /\ responses = <<>>
    /\ inFlight = 0

Init == (\E doc \in Stores : Loaded(doc)) /\ NotFetched /\ NotRefreshed

PartialInit == (\E doc \in PartialStores : Loaded(doc)) /\ NotFetched /\ NotRefreshed

(***************************************************************************)
(* filterDataByDays.                                                       *)
(***************************************************************************)
governing(c, row) ==
    CASE c = "fact_deployment" -> row.created_at_utc
      [] c = "dora_summary_daily" -> row.date
      [] c = "fact_pr" -> row.pr_merged_at_utc
      [] c = "fact_incident" -> row.created_utc
      [] c = "dora_events" -> row.when_utc

cutoffDate(days) == Now - days * Day

\* inWindow with the boundary excluded.
inWindowStrict(c, row, days) == governing(c, row) > cutoffDate(days)

inWindow(c, row, days) == governing(c, row) >= cutoffDate(days)

filterRows(c, rows, days) ==
    LET kept == {i \in 1..Len(rows) : inWindow(c, rows[i], days)}
        nth(p) == CHOOSE i \in kept : Cardinality({j \in kept : j < i}) = p - 1
    IN  [p \in 1..Cardinality(kept) |-> rows[nth(p)]]

\* allTimeArray without the "|| []" defaults.
allTimeArrayNoDefault(d, c) ==
    IF c = "dora_summary_daily" /\ d[c] # Undefined THEN ViewId(c) ELSE d[c]

\* The array a collection of the "All Time" view is: the store's own array
\* for deployments, PRs, incidents and events; a reversed copy for rollups;
\* a new empty array for an absent optional collection.
allTimeArray(d, c) ==
    IF c = "fact_deployment" THEN d[c]
    ELSE IF d[c] = Undefined \/ c = "dora_summary_daily" THEN ViewId(c)
    ELSE d[c]

\* allTimeRows without the "days === null" guard: null * 86400000 is 0, so
\* the cutoff is now.
allTimeRowsNoNullGuard(d, h, c) ==
    IF d[c] = Undefined THEN <<>>
    ELSE IF c = "dora_summary_daily" THEN Reverse(filterRows(c, h[d[c]], 0))
    ELSE filterRows(c, h[d[c]], 0)

allTimeRows(d, h, c) ==
    IF d[c] = Undefined THEN <<>>
    ELSE IF c = "dora_summary_daily" THEN Reverse(h[d[c]])
    ELSE h[d[c]]

\* The rows of a collection of a finite-window view.
windowRows(d, h, c, days) ==
    IF d[c] = Undefined THEN <<>>
    ELSE IF c = "dora_summary_daily" THEN Reverse(filterRows(c, h[d[c]], days))
    ELSE filterRows(c, h[d[c]], days)

filterDataByDays(d, h, days) ==
    IF days = Null
    THEN [view |-> [c \in Collections |-> allTimeArray(d, c)],
          heap |-> [a \in ArrayIds |->
                      IF a[1] = "data" THEN h[a]
                      ELSE IF allTimeArray(d, a[2]) = a THEN allTimeRows(d, h, a[2])
                      ELSE <<>>]]
    ELSE [view |-> [c \in Collections |-> ViewId(c)],
          heap |-> [a \in ArrayIds |->
                      IF a[1] = "data" THEN h[a]
                      ELSE windowRows(d, h, a[2], days)]]

\* Line 269: data.fact_deployment.filter of an absent collection throws.
filterThrows(d, days) == days # Null /\ d.fact_deployment = Undefined

Filter(days) ==
    /\ IF filterThrows(data, days)
       THEN /\ thrown' = TypeError
            /\ filteredData' = NoView
            /\ timeFilter' = days
            /\ metrics' = NoMetrics
            /\ UNCHANGED <<data, heap>>
       ELSE LET r == filterDataByDays(data, heap, days)
            IN  /\ filteredData' = r.view
                /\ heap' = r.heap
                /\ timeFilter' = days
                /\ metrics' = NoMetrics
                /\ thrown' = NoError
                /\ UNCHANGED data
    /\ UNCHANGED <<loading, effect, csvVars, githubVars>>


(***************************************************************************)
(* calculateDoraMetrics and its helpers.                                   *)
(***************************************************************************)
isSuccessful(d) == d.state = "success" \/ d.state = "inactive"
\* isFailed as "anything but success".
isFailedNotSuccess(d) == d.state # "success"

isFailed(d) == d.state = "error" \/ d.state = "failure"

countSuccessful(rows) == Cardinality({i \in 1..Len(rows) : isSuccessful(rows[i])})
countFailed(rows) == Cardinality({i \in 1..Len(rows) : isFailed(rows[i])})

\* (finished - created) / (1000 * 60 * 60), in hours.
leadTimeHours(d) == Rat((d.finished_at_utc - d.created_at_utc) * 24, Day)

\* positiveLeadTimes without the "time > 0" filter.
positiveLeadTimesUnfiltered(rows) ==
    [i \in 1..Len(rows) |-> leadTimeHours(rows[i])]

positiveLeadTimes(rows) ==
    LET all == [i \in 1..Len(rows) |-> leadTimeHours(rows[i])]
    IN  SelectSeq(all, LAMBDA t : RLt(Zero, t))

mean(s) == RDiv(RSum(s), Num(Len(s)))

\* createdWithin without the "deployDate <= now" bound.
createdWithinNoUpperBound(rows, n) ==
    {i \in 1..Len(rows) : rows[i].created_at_utc >= Now - n * Day}

\* Deployments of the full store created in [now - n days, now].
createdWithin(rows, n) ==
    {i \in 1..Len(rows) :
        rows[i].created_at_utc >= Now - n * Day /\ rows[i].created_at_utc <= Now}

calculateDeploymentCounts(original) ==
    [yesterday |-> Cardinality(createdWithin(original, 1)),
     lastWeek |-> Cardinality(createdWithin(original, 7)),
     lastMonth |-> Cardinality(createdWithin(original, 30))]

\* toFixed0 truncating instead of rounding.
toFixed0Truncating(x) == x[1] \div x[2]

\* Number.prototype.toFixed(0) of a non-negative rational: nearest integer,
\* halves up.
toFixed0(x) == (2 * x[1] + x[2]) \div (2 * x[2])

\* The trend text, as <<count>> for "<count> deployments in last week" and
\* <<count, rate>> for "<count> deployments in last week, with <rate>% success
\* rate".
calculateDeploymentTrendText(original) ==
    LET week == createdWithin(original, 7)
        weekCount == Cardinality(week)
        successfulWeek == Cardinality({i \in week : isSuccessful(original[i])})
    IN  IF weekCount = 0 THEN <<0>>
        ELSE <<weekCount, toFixed0(Rat(successfulWeek * 100, weekCount))>>

\* calculateCFRTrendStatus with exactly 20% rated good.
calculateCFRTrendStatusInclusive(deployments, original, days) ==
    IF days = Null
    THEN LET totalDeployments == Len(original)
             failedDeployments == countFailed(original)
             cfrPercentage == IF totalDeployments > 0
                                 THEN Rat(failedDeployments * 100, totalDeployments)
                                 ELSE Zero
         IN  IF RLe(cfrPercentage, Num(20)) THEN "good" ELSE "bad"
    ELSE LET currentFailures == countFailed(deployments)
             currentPeriodStart == Now - days * Day
             previousPeriodStart == currentPeriodStart - days * Day
             previousFailures == Cardinality({i \in 1..Len(original) :
                 /\ original[i].created_at_utc >= previousPeriodStart
                 /\ original[i].created_at_utc < currentPeriodStart
                 /\ isFailed(original[i])})
         IN  IF currentFailures <= previousFailures THEN "good" ELSE "bad"

calculateCFRTrendStatus(deployments, original, days) ==
    IF days = Null
    THEN LET totalDeployments == Len(original)
             failedDeployments == countFailed(original)
             cfrPercentage == IF totalDeployments > 0
                                 THEN Rat(failedDeployments * 100, totalDeployments)
                                 ELSE Zero
         IN  IF RLt(cfrPercentage, Num(20)) THEN "good" ELSE "bad"
    ELSE LET currentFailures == countFailed(deployments)
             currentPeriodStart == Now - days * Day
             previousPeriodStart == currentPeriodStart - days * Day
             previousFailures == Cardinality({i \in 1..Len(original) :
                 /\ original[i].created_at_utc >= previousPeriodStart
                 /\ original[i].created_at_utc < currentPeriodStart
                 /\ isFailed(original[i])})
         IN  IF currentFailures <= previousFailures THEN "good" ELSE "bad"

\* successRateOf with an empty collection rated 100.
successRateOfEmptyPerfect(deployments) ==
    IF Len(deployments) > 0
    THEN Rat(countSuccessful(deployments) * 100, Len(deployments))
    ELSE Num(100)

successRateOf(deployments) ==
    IF Len(deployments) > 0
    THEN Rat(countSuccessful(deployments) * 100, Len(deployments))
    ELSE Zero

\* summaryAggregates with the means taken over every rollup row.
summaryAggregatesOverAllRows(summary) ==
    LET n == Len(summary)
    IN  [deploymentFrequency |-> mean([i \in 1..n |-> Num(summary[i].deploys)]),
         leadTime |-> mean([i \in 1..n |-> Num(summary[i].avg_lt_hours)]),
         cfr |-> RMul(mean([i \in 1..n |-> summary[i].cfr]), Num(100)),
         mttr |-> RSum([i \in 1..n |-> Rat(summary[i].mttr_min, 60)])]

\* Lines 388-395: the aggregates when the view has rollup rows.
summaryAggregates(summary) ==
    LET validData == SelectSeq(summary, LAMBDA r : r.deploys > 0)
        n == Len(validData)
    IN  IF n > 0
        THEN [deploymentFrequency |-> mean([i \in 1..n |-> Num(validData[i].deploys)]),
              leadTime |-> mean([i \in 1..n |-> Num(validData[i].avg_lt_hours)]),
              cfr |-> RMul(mean([i \in 1..n |-> validData[i].cfr]), Num(100)),
              mttr |-> RSum([i \in 1..Len(summary) |-> Rat(summary[i].mttr_min, 60)])]
        ELSE [deploymentFrequency |-> Zero, leadTime |-> Zero, cfr |-> Zero,
              mttr |-> Zero]

\* rawFrequency with the numerator clamped to at least 1 like the divisor.
rawFrequencyAtLeastOne(deployments) ==
    LET n == Len(deployments)
    IN  Rat(Max(1, n), Max(1, IF n > 0
                                THEN Ceil(Now - deployments[n].created_at_utc, Day)
                                ELSE 1))

\* Line 398: total / max(1, ceil(days from the LAST array element to now)).
rawFrequency(deployments) ==
    LET n == Len(deployments)
    IN  Rat(n, Max(1, IF n > 0
                        THEN Ceil(Now - deployments[n].created_at_utc, Day)
                        ELSE 1))

\* rawMTTR estimating from every event, whatever its type.
rawMTTRAllEvents(incidents, events) ==
    IF Len(incidents) > 0
    THEN Rat(Sum([i \in 1..Len(incidents) |-> incidents[i].duration_minutes]), 60)
    ELSE IF Len(events) > 0 THEN Num(Len(events) * 3)
    ELSE Zero

rawMTTR(incidents, events) ==
    IF Len(incidents) > 0
    THEN Rat(Sum([i \in 1..Len(incidents) |-> incidents[i].duration_minutes]), 60)
    ELSE IF Len(events) > 0
    THEN LET n == Cardinality({i \in 1..Len(events) :
                                  events[i].event_type = "incident"})
         IN  IF n > 0 THEN Num(n * 3) ELSE Zero
    ELSE Zero

\* Lines 396-430: the aggregates computed from the raw records.
rawAggregates(deployments, incidents, events) ==
    LET leadTimes == positiveLeadTimes(deployments)
    IN  [deploymentFrequency |-> rawFrequency(deployments),
         leadTime |-> IF Len(leadTimes) > 0 THEN mean(leadTimes) ELSE Zero,
         cfr |-> IF Len(deployments) > 0
                    THEN Rat(countFailed(deployments) * 100, Len(deployments))
                    ELSE Zero,
         mttr |-> rawMTTR(incidents, events)]

aggregates(deployments, summary, incidents, events) ==
    IF Len(summary) > 0
    THEN summaryAggregates(summary)
    ELSE rawAggregates(deployments, incidents, events)

\* Array.prototype.sort, newest first, of deployments and of incidents.
sortDeployments(rows) ==
    SortDescBy(rows, [i \in 1..Len(rows) |-> rows[i].created_at_utc])
sortIncidents(rows) ==
    SortDescBy(rows, [i \in 1..Len(rows) |-> rows[i].created_utc])

\* getTrend with the two periods swapped.
getTrendSwapped(current, previous) ==
    IF Len(previous) = 0 \/ Len(current) = 0 THEN Zero
    ELSE LET currentAvg == RDiv(RSum(previous), Num(Len(previous)))
             previousAvg == RDiv(RSum(current), Num(Len(current)))
         IN  IF previousAvg = Zero THEN Zero
             ELSE RMul(RDiv(RSub(currentAvg, previousAvg), previousAvg), Num(100))

getTrend(current, previous) ==
    IF Len(previous) = 0 \/ Len(current) = 0 THEN Zero
    ELSE LET currentAvg == mean(current)
             previousAvg == mean(previous)
         IN  IF previousAvg = Zero THEN Zero
             ELSE RMul(RDiv(RSub(currentAvg, previousAvg), previousAvg), Num(100))

calculateDoraMetrics(fd, d, h, days) ==
    LET deployments == h[fd.fact_deployment]
        summary == h[fd.dora_summary_daily]
        incidents == h[fd.fact_incident]
        events == h[fd.dora_events]
        original == h[d.fact_deployment]
        deploymentCounts == calculateDeploymentCounts(original)
        agg == aggregates(deployments, summary, incidents, events)
        allLeadTimes == positiveLeadTimes(deployments)
        sortedDeployments == sortDeployments(deployments)
        incidentDurations ==
            [i \in 1..Len(incidents) |-> Rat(incidents[i].duration_minutes, 60)]
        sortedIncidents == sortIncidents(incidents)
        midPoint == Len(summary) \div 2
        recentPeriod == SubSeq(summary, 1, midPoint)
        previousPeriod == SubSeq(summary, midPoint + 1, Len(summary))
        col(rows, f(_)) == [i \in 1..Len(rows) |-> f(rows[i])]
        incidentEvents == Cardinality({i \in 1..Len(events) :
                                          events[i].event_type = "incident"})
    IN  [deploymentFrequency |-> agg.deploymentFrequency,
         deploymentFrequencyTrend |->
             getTrend(col(recentPeriod, LAMBDA r : Num(r.deploys)),
                      col(previousPeriod, LAMBDA r : Num(r.deploys))),
         deploymentFrequencyTrendText |-> calculateDeploymentTrendText(original),
         deploymentsYesterday |-> deploymentCounts.yesterday,
         deploymentsLastWeek |-> deploymentCounts.lastWeek,
         deploymentsLastMonth |-> deploymentCounts.lastMonth,
         leadTime |-> agg.leadTime,
         leadTimeTrend |->
             getTrend(col(recentPeriod, LAMBDA r : Num(r.avg_lt_hours)),
                      col(previousPeriod, LAMBDA r : Num(r.avg_lt_hours))),
         maxLeadTime |-> IF Len(allLeadTimes) > 0 THEN RMax(allLeadTimes) ELSE Zero,
         minLeadTime |-> IF Len(allLeadTimes) > 0 THEN RMin(allLeadTimes) ELSE Zero,
         lastDeploymentLeadTime |->
             IF Len(sortedDeployments) > 0
                 THEN leadTimeHours(sortedDeployments[1]) ELSE Zero,
         maxMTTR |-> IF Len(incidents) > 0 THEN RMax(incidentDurations) ELSE Zero,
         minMTTR |-> IF Len(incidents) > 0 THEN RMin(incidentDurations) ELSE Zero,
         lastIncidentMTTR |->
             IF Len(incidents) > 0
                 THEN Rat(sortedIncidents[1].duration_minutes, 60) ELSE Zero,
         cfr |-> agg.cfr,
         cfrTrend |->
             getTrend(col(recentPeriod, LAMBDA r : r.cfr),
                      col(previousPeriod, LAMBDA r : r.cfr)),
         failedDeployments |-> countFailed(deployments),
         successfulDeployments |-> countSuccessful(deployments),
         cfrTrendStatus |-> calculateCFRTrendStatus(deployments, original, days),
         mttr |-> agg.mttr,
         mttrTrend |->
             getTrend(col(recentPeriod, LAMBDA r : Rat(r.mttr_min, 60)),
                      col(previousPeriod, LAMBDA r : Rat(r.mttr_min, 60))),
         totalDeployments |-> Len(deployments),
         successRate |-> successRateOf(deployments),
         totalIncidents |-> IF Len(incidents) # 0 THEN Len(incidents)
                            ELSE incidentEvents,
         totalPRs |-> Len(h[fd.fact_pr])]

\* The heap after calculateDoraMetrics: the view's deployment array (line 443)
\* and, when it has rows, its incident array (line 465) are sorted in place.
heapAfterDerive(fd, h) ==
    LET h1 == [h EXCEPT ![fd.fact_deployment] = sortDeployments(@)]
    IN  [h1 EXCEPT ![fd.fact_incident] = sortIncidents(@)]

(***************************************************************************)
(* The supplementary aggregations.                                         *)
(***************************************************************************)
getDeploymentStatusCounts(deployments) ==
    <<[name |-> "Success", value |-> countSuccessful(deployments)],
      [name |-> "Failed", value |-> countFailed(deployments)]>>

\* Array.from(new Set(...)): the distinct actors in order of first occurrence.
actorsOf(deployments) ==
    LET first == {i \in 1..Len(deployments) :
                    \A j \in 1..(i - 1) : deployments[j].actor # deployments[i].actor}
        nth(p) == CHOOSE i \in first : Cardinality({j \in first : j < i}) = p - 1
    IN  [p \in 1..Cardinality(first) |-> deployments[nth(p)].actor]

actorSuccessRate(actorDeployments) ==
    IF Len(actorDeployments) > 0
    THEN Rat(countSuccessful(actorDeployments) * 100, Len(actorDeployments))
    ELSE Zero

getTeamPerformance(deployments) ==
    LET actors == actorsOf(deployments)
        of(actor) == SelectSeq(deployments, LAMBDA d : d.actor = actor)
    IN  [p \in 1..Len(actors) |->
            [actor |-> actors[p],
             deployments |-> Len(of(actors[p])),
             successRate |-> actorSuccessRate(of(actors[p]))]]

\* TeamPerformance (lines 79-96): the members shown, all of them when the
\* list is expanded and the first five otherwise.
displayedMembers(deployments, isExpanded) ==
    LET teamData == getTeamPerformance(deployments)
    IN  IF isExpanded \/ Len(teamData) <= 5 THEN teamData ELSE SubSeq(teamData, 1, 5)

\* Lines 317 and 373: originalData.fact_deployment.filter and deployments.length
\* of an absent collection throw.
deriveThrows(fd, d) == d.fact_deployment = Undefined \/ fd.fact_deployment = Undefined

Derive ==
    /\ filteredData # NoView
    /\ IF deriveThrows(filteredData, data)
       THEN /\ thrown' = TypeError
            /\ metrics' = NoMetrics
            /\ UNCHANGED heap
       ELSE /\ metrics' = <<calculateDoraMetrics(filteredData, data, heap, timeFilter)>>
            /\ heap' = heapAfterDerive(filteredData, heap)
            /\ thrown' = NoError
    /\ UNCHANGED <<data, filteredData, timeFilter, loading, effect, csvVars, githubVars>>

Next == (\E days \in TimeFilters : Filter(days)) \/ Derive

Spec == Init /\ [][Next]_vars

\* The same operations on input snapshots that may lack any collection.
PartialSpec == PartialInit /\ [][Next]_vars

(***************************************************************************)
(* The load of the Dashboard page (dashboard.tsx, lines 26-87): the effect *)
(* that runs once after the first render, and the page shown.  A render    *)
(* runs both memos, filterDataByDays and calculateDoraMetrics, in one      *)
(* step.                                                                   *)
(***************************************************************************)
NoData == [c \in Collections |-> <<"null">>]

\* Line 28: useState<number | null>(30).
InitialTimeFilter == 30

\* The documents loadDoraData may return.
LoadStores == IncidentStores \cup PeriodStores

\* The early returns of lines 51 and 69.
page ==
    IF loading THEN "skeleton"
    ELSE IF data = NoData \/ filteredData = NoView \/ metrics = NoMetrics
    THEN "Data Loading Error"
    ELSE "dashboard"

LoadInit ==
    /\ data = NoData
    /\ loading = TRUE
    /\ timeFilter = InitialTimeFilter
    /\ heap = [a \in ArrayIds |-> <<>>]
    /\ filteredData = NoView
    /\ metrics = NoMetrics
    /\ thrown = NoError
    /\ effect = "pending"
    /\ NotFetched
    /\ NotRefreshed

\* The memos of a render over data d with the arrays h under window days.
Render(d, h, days) ==
    LET r == filterDataByDays(d, h, days)
    IN  /\ filteredData' = r.view
        /\ metrics' = <<calculateDoraMetrics(r.view, d, r.heap, days)>>
        /\ heap' = heapAfterDerive(r.view, r.heap)

\* Lines 36-38 without the finally: setLoading(false) at the end of the try.
loadingAfterEffectNoFinally(threw) == threw

\* Lines 36-38: finally { setLoading(false) }.
loadingAfterEffect(threw) == FALSE

\* The effect of lines 30-39, run once: loadDoraData returns a document, or
\* throws and leaves data null; the page is rendered again.
LoadEffect ==
    /\ effect = "pending"
    /\ effect' = "done"
    /\ \/ \E doc \in LoadStores :
            LET h == [a \in ArrayIds |->
                        IF a[1] = "data" /\ doc[a[2]] # Absent THEN doc[a[2]][1]
                        ELSE <<>>]
            IN  /\ data' = loadDoraData(doc)
                /\ loading' = loadingAfterEffect(FALSE)
                /\ Render(loadDoraData(doc), h, timeFilter)
                /\ UNCHANGED <<timeFilter, thrown>>
       \/ /\ loading' = loadingAfterEffect(TRUE)
          /\ UNCHANGED <<data, heap, filteredData, timeFilter, metrics, thrown>>
    /\ UNCHANGED <<csvVars, githubVars>>

\* A click on a window button, shown on the dashboard only (lines 107-127).
SetTimeFilter(days) ==
    /\ page = "dashboard"
    /\ timeFilter' = days
    /\ Render(data, heap, days)
    /\ UNCHANGED <<data, thrown, loading, effect, csvVars, githubVars>>

LoadNext == LoadEffect \/ \E days \in TimeFilters : SetTimeFilter(days)

\* The effect is synchronous code run by React after the first render.
LoadSpec == LoadInit /\ [][LoadNext]_vars /\ WF_vars(LoadEffect)

(***************************************************************************)
(* The repository summary page (RepoSummary in dashboard.tsx): parseCSV    *)
(* over the text of repo_summary_<days>d.csv and the totals of             *)
(* SummaryCard.  A text is a sequence of characters; a column name is kept *)
(* as one character, since nothing looks inside it.  NaN is the rational   *)
(* 0 / 0.                                                                  *)
(***************************************************************************)
LF == "LF"
CR == "CR"
SP == " "
Comma == ","
WhiteSpace == {SP, LF, CR}
Digits == {"0", "1", "2", "3"}
Signs == {"-", "+"}
NaN == <<0, 0>>
NullNumber == <<>>

ColumnNames == {"repo_name", "display_name", "prs_opened", "prs_merged",
                "issues_ready_for_qa", "issues_qa_completed",
                "days_since_last_release", "fetched_at"}

digitValue(c) == CASE c = "0" -> 0 [] c = "1" -> 1 [] c = "2" -> 2 [] c = "3" -> 3

\* String.prototype.trim.
RECURSIVE trimStart(_)
trimStart(s) ==
    IF s # <<>> /\ Head(s) \in WhiteSpace THEN trimStart(Tail(s)) ELSE s

trim(s) == Reverse(trimStart(Reverse(trimStart(s))))

\* String.prototype.split on a one-character separator.
RECURSIVE split(_, _)
split(s, sep) ==
    IF \A i \in 1..Len(s) : s[i] # sep THEN <<s>>
    ELSE LET k == CHOOSE i \in 1..Len(s) :
                      s[i] = sep /\ \A j \in 1..(i - 1) : s[j] # sep
         IN  <<SubSeq(s, 1, k - 1)>> \o split(SubSeq(s, k + 1, Len(s)), sep)

digitPrefix(s) ==
    LET n == CHOOSE k \in 0..Len(s) :
                 /\ \A i \in 1..k : s[i] \in Digits
                 /\ k = Len(s) \/ s[k + 1] \notin Digits
    IN  SubSeq(s, 1, n)

RECURSIVE decimal(_)
decimal(ds) ==
    IF ds = <<>> THEN 0
    ELSE 10 * decimal(SubSeq(ds, 1, Len(ds) - 1)) + digitValue(ds[Len(ds)])

\* parseInt(s, 10): leading white space, an optional sign, the longest prefix
\* of digits; NaN when there is no digit.
parseInt(s) ==
    LET t == trimStart(s)
        signed == t # <<>> /\ Head(t) \in Signs
        ds == digitPrefix(IF signed THEN Tail(t) ELSE t)
        n == decimal(ds)
    IN  IF ds = <<>> THEN NaN
        ELSE Num(IF signed /\ Head(t) = "-" THEN 0 - n ELSE n)

\* values[index]?.trim() || ""
cellAt(values, index) ==
    IF index <= Len(values) THEN trim(values[index]) ELSE <<>>

\* The row object built by headers.forEach: a later column of the same name
\* overwrites an earlier one; a name without a column reads as undefined,
\* which every use below treats like "".
rowOf(headers, values) ==
    [name \in ColumnNames |->
        LET cols == {i \in 1..Len(headers) : trim(headers[i]) = <<name>>}
        IN  IF cols = {} THEN <<>>
            ELSE cellAt(values, CHOOSE i \in cols : \A j \in cols : j <= i)]

\* row[name] || "0" with the default left out.
orZeroNoDefault(cell) == cell

\* row[name] || "0"
orZero(cell) == IF cell = <<>> THEN <<"0">> ELSE cell

repoMetricsOf(row) ==
    [repoName |-> row["repo_name"],
     displayName |-> row["display_name"],
     prsOpened |-> parseInt(orZero(row["prs_opened"])),
     prsMerged |-> parseInt(orZero(row["prs_merged"])),
     issuesReadyForQA |-> parseInt(orZero(row["issues_ready_for_qa"])),
     issuesQACompleted |-> parseInt(orZero(row["issues_qa_completed"])),
     daysSinceLastRelease |-> IF row["days_since_last_release"] # <<>>
                                THEN parseInt(row["days_since_last_release"])
                                ELSE NullNumber,
     fetchedAt |-> row["fetched_at"]]

parseCSV(text) ==
    LET lines == split(trim(text), LF)
    IN  IF Len(lines) < 2 THEN <<>>
        ELSE LET headers == split(lines[1], Comma)
             IN  [i \in 1..(Len(lines) - 1) |->
                    repoMetricsOf(rowOf(headers, split(lines[i + 1], Comma)))]

\* Addition of JavaScript numbers: NaN is absorbing.
JsAdd(a, b) == IF a = NaN \/ b = NaN THEN NaN ELSE RAdd(a, b)

RECURSIVE JsSum(_)
JsSum(xs) == IF xs = <<>> THEN Zero ELSE JsAdd(JsSum(Tail(xs)), Head(xs))

NumericFields == {"prsOpened", "prsMerged", "issuesReadyForQA", "issuesQACompleted"}

\* SummaryCard: the totals over the repositories.
totals(ms) ==
    [f \in NumericFields |-> JsSum([i \in 1..Len(ms) |-> ms[i][f]])]

\* The inputs: header lines with and without prs_opened, with white space
\* and a carriage return; data lines with valid, negative, non-numeric and
\* partly numeric cells, with fewer values than columns, blank and of white
\* space only; texts with a leading or trailing line feed.
HeaderLines ==
    {<<>>,
     <<"repo_name", Comma, "prs_opened", Comma, "days_since_last_release">>,
     <<"repo_name", Comma, "prs_merged">>,
     <<"repo_name", Comma, SP, "prs_opened", SP, Comma, "issues_qa_completed", CR>>}

RowLines ==
    {<<"a", Comma, "1", "2", Comma, "3">>,
     <<"b", Comma, "a", "b">>,
     <<"a", CR>>,
     <<>>,
     <<"b", Comma, SP, "-", "2", Comma>>,
     <<"a", Comma, "1", "a", Comma, "a">>,
     <<SP>>}

RECURSIVE joinLines(_)
joinLines(rows) ==
    IF rows = <<>> THEN <<>> ELSE <<LF>> \o Head(rows) \o joinLines(Tail(rows))

CsvTexts ==
    {before \o header \o joinLines(rows) \o after :
        before \in {<<>>, <<LF>>}, header \in HeaderLines,
        rows \in SeqsUpTo(RowLines, MaxCsvRows), after \in {<<>>, <<LF>>}}

\* new Date(fetchedAt).toLocaleString()
toLocaleString(fetchedAt) == <<"locale">> \o fetchedAt

\* Lines 424-426: lastUpdated after a response parsed into ms.
lastUpdatedAfter(ms, before) ==
    IF Len(ms) > 0 /\ ms[1].fetchedAt # <<>> THEN toLocaleString(ms[1].fetchedAt)
    ELSE before

\* The page with the response text of its first request on the way.
CsvInit ==
    /\ Loaded(Snapshot(<<>>, Absent, Absent, Absent, Absent))
    /\ csvText \in CsvTexts
    /\ repoMetrics = <<>>
    /\ isLoading = TRUE
    /\ error = NoMessage
    /\ lastUpdated = NoMessage
    /\ timePeriod = InitialTimePeriod
    /\ requests = <<>>
    /\ NotRefreshed

\* fetchData from its call to its end, with an ok response and no other call
\* in between: parse the text, set the state.
FetchData ==
    /\ repoMetrics' = parseCSV(csvText)
    /\ lastUpdated' = lastUpdatedAfter(parseCSV(csvText), lastUpdated)
    /\ error' = NoMessage
    /\ isLoading' = FALSE
    /\ UNCHANGED <<dashboardVars, githubVars, csvText, timePeriod, requests>>

CsvNext == FetchData

CsvSpec == CsvInit /\ [][CsvNext]_vars

(***************************************************************************)
(* The life cycle of fetchData (dashboard.tsx, lines 409-436): a call      *)
(* sets isLoading and clears error, then awaits its response; calls        *)
(* overlap, since the period buttons are never disabled.  requests holds   *)
(* the calls in the order they started.                                    *)
(***************************************************************************)
Periods == {7, 30}

\* The texts a period's file may hold when it is served.
PeriodTexts(days) ==
    LET header == <<"repo_name", Comma, "prs_opened", Comma, "fetched_at">>
    IN  IF days = 30
        THEN {header \o <<LF, "a", Comma, "1", "2", Comma, "3">>}
        ELSE {header \o <<LF, "b", Comma, "2", Comma, "1">>,
              header \o <<LF, "b", Comma, "2", Comma>>}

\* The messages of the catch block (line 428), for a response that is not
\* ok (line 418), a rejected fetch and a rejection that is not an Error.
Failures(days) ==
    {<<"Failed to fetch repo summary data for", days, "days">>,
     <<"Failed to fetch">>,
     <<"Failed to load data">>}

Pending(k) == k \in 1..Len(requests) /\ requests[k].status = "pending"

\* The page after its first render and the call of the mount effect.
FetchInit ==
    /\ Loaded(Snapshot(<<>>, Absent, Absent, Absent, Absent))
    /\ csvText = <<>>
    /\ repoMetrics = <<>>
    /\ isLoading = TRUE
    /\ error = NoMessage
    /\ lastUpdated = NoMessage
    /\ timePeriod = InitialTimePeriod
    /\ requests = <<[days |-> InitialTimePeriod, status |-> "pending"]>>
    /\ NotRefreshed

\* Lines 410-416: fetchData up to its await.
StartFetch(days) ==
    /\ Len(requests) < MaxFetches
    /\ isLoading' = TRUE
    /\ error' = NoMessage
    /\ requests' = Append(requests, [days |-> days, status |-> "pending"])
    /\ UNCHANGED <<csvText, repoMetrics, lastUpdated>>

\* A click on the button of another period: the effect of lines 434-436
\* calls fetchData.
SwitchPeriod(days) ==
    /\ days # timePeriod
    /\ timePeriod' = days
    /\ StartFetch(days)
    /\ UNCHANGED <<dashboardVars, githubVars>>

\* A click on Refresh, disabled while isLoading (lines 468-477).
Refresh ==
    /\ ~isLoading
    /\ StartFetch(timePeriod)
    /\ UNCHANGED <<dashboardVars, githubVars, timePeriod>>

\* finally without setIsLoading(false) when another call is awaited.
isLoadingAfterWhilePending(k) == \E j \in 1..Len(requests) : j # k /\ Pending(j)

\* Lines 429-431: finally { setIsLoading(false) }.
isLoadingAfter(k) == FALSE

\* setRepoMetrics dropping the response of a period no longer selected.
displayedAfterOkIfSelected(k, parsed) ==
    IF requests[k].days = timePeriod THEN parsed ELSE repoMetrics

\* Line 422: setRepoMetrics(metrics).
displayedAfterOk(k, parsed) == parsed

\* Lines 417-426: the response of call k is ok and its text is parsed.
ResolveOk(k) ==
    /\ Pending(k)
    /\ \E text \in PeriodTexts(requests[k].days) :
           /\ csvText' = text
           /\ repoMetrics' = displayedAfterOk(k, parseCSV(text))
           /\ lastUpdated' = lastUpdatedAfter(parseCSV(text), lastUpdated)
    /\ isLoading' = isLoadingAfter(k)
    /\ requests' = [requests EXCEPT ![k].status = "ok"]
    /\ UNCHANGED <<dashboardVars, githubVars, error, timePeriod>>

\* Lines 427-431: call k ends in the catch block.
ResolveFailed(k) ==
    /\ Pending(k)
    /\ \E message \in Failures(requests[k].days) : error' = message
    /\ isLoading' = isLoadingAfter(k)
    /\ requests' = [requests EXCEPT ![k].status = "failed"]
    /\ UNCHANGED <<dashboardVars, githubVars, csvText, repoMetrics, lastUpdated, timePeriod>>

Resolve(k) == ResolveFailed(k) \/ ResolveOk(k)

FetchNext ==
    \/ \E days \in Periods : SwitchPeriod(days)
    \/ Refresh
    \/ \E k \in 1..MaxFetches : Resolve(k)

\* Every fetch is settled by the browser in the end.
FetchSpec ==
    FetchInit /\ [][FetchNext]_vars /\ \A k \in 1..MaxFetches : WF_vars(Resolve(k))

(***************************************************************************)
(* The GitHub-API RepoSummary (repo-summary.tsx): fetchAllRepoData marks   *)
(* every repository as loading, awaits fetchGitHubData of every            *)
(* repository, and sets every repository from its settled result.  The     *)
(* Fetch Data button is never disabled, so cycles overlap; inFlight        *)
(* counts the cycles awaiting their results, responses holds the           *)
(* responses of the cycle settled last.                                    *)
(***************************************************************************)
thirtyDaysAgo == Now - 30 * Day

\* Bodies of the pulls endpoint.
PrBodies ==
    {<<[created_at |-> Now - 3 * Day, merged_at |-> Now - Day],
       [created_at |-> Now - 31 * Day, merged_at |-> Now - 29 * Day]>>,
     <<[created_at |-> Now - 3 * Day, merged_at |-> Now - Day],
       [created_at |-> Now - 30 * Day, merged_at |-> Null]>>}

\* Bodies of the issues endpoint: label names are sequences of characters.
IssueBodies ==
    {<<[pull_request |-> TRUE, labels |-> <<<<"R", "e", "a", "d", "y", " ", "f", "o", "r", " ", "Q", "A">>>>],
       [pull_request |-> FALSE, labels |-> <<<<"b", "u", "g">>, <<"R", "e", "a", "d", "y", " ", "f", "o", "r", " ", "Q", "A">>>>],
       [pull_request |-> FALSE, labels |-> <<<<"q", "a", "-", "d", "o", "n", "e">>>>],
       [pull_request |-> FALSE, labels |-> <<>>]>>}

\* What the two requests of one repository come back with: two ok
\* responses with their bodies, an issues response that is not ok, or a
\* rejected pulls request.
Responses ==
    {[prs |-> [status |-> "ok", body |-> p], issues |-> [status |-> "ok", body |-> i]] :
        p \in PrBodies, i \in IssueBodies}
    \cup {[prs |-> [status |-> "ok", body |-> CHOOSE p \in PrBodies : Len(p) = 2 /\ p[2].merged_at # Null],
           issues |-> [status |-> "error", body |-> <<>>]]}
    \cup {[prs |-> [status |-> "rejected", body |-> <<>>],
           issues |-> [status |-> "ok", body |-> i]] : i \in IssueBodies}

toLowerCase(name) ==
    [k \in 1..Len(name) |->
        CASE name[k] = "A" -> "a"
          [] name[k] = "Q" -> "q"
          [] name[k] = "R" -> "r"
          [] OTHER -> name[k]]

includes(name, part) ==
    \E k \in 1..(Len(name) - Len(part) + 1) : SubSeq(name, k, k + Len(part) - 1) = part

ReadyForQANames == {<<"r", "e", "a", "d", "y", " ", "f", "o", "r", " ", "q", "a">>,
                    <<"r", "e", "a", "d", "y", "-", "f", "o", "r", "-", "q", "a">>,
                    <<"q", "a", " ", "r", "e", "a", "d", "y">>}

QACompletedNames == {<<"q", "a", " ", "c", "o", "m", "p", "l", "e", "t", "e", "d">>,
                     <<"q", "a", "-", "c", "o", "m", "p", "l", "e", "t", "e", "d">>,
                     <<"q", "a", " ", "d", "o", "n", "e">>,
                     <<"q", "a", "-", "d", "o", "n", "e">>,
                     <<"q", "a", "'", "d">>}

\* issue.labels.some((label) => label.name.toLowerCase().includes(...) || ...)
labelled(issue, names) ==
    \E l \in 1..Len(issue.labels) :
        \E part \in names : includes(toLowerCase(issue.labels[l]), part)

\* Lines 83-116: the four counts of two ok responses.
countsOf(r) ==
    LET recentPRs == SelectSeq(r.prs.body, LAMBDA pr : pr.created_at >= thirtyDaysAgo)
        actualIssues == SelectSeq(r.issues.body, LAMBDA issue : ~issue.pull_request)
    IN  [prsOpened |-> Len(recentPRs),
         prsMerged |-> Len(SelectSeq(recentPRs, LAMBDA pr : pr.merged_at # Null)),
         issuesReadyForQA |->
             Len(SelectSeq(actualIssues, LAMBDA issue : labelled(issue, ReadyForQANames))),
         issuesQACompleted |->
             Len(SelectSeq(actualIssues, LAMBDA issue : labelled(issue, QACompletedNames)))]

\* Line 76 with && for ||: throws only when both responses are not ok.
throwsOnlyIfBothFailed(r) == r.prs.status # "ok" /\ r.issues.status # "ok"

\* Lines 65-78: a fetch rejects, or a response is not ok.
throws(r) == r.prs.status # "ok" \/ r.issues.status # "ok"

\* fetchGitHubData as Promise.allSettled sees it.
fetchGitHubData(r) ==
    IF throws(r) THEN [status |-> "rejected"]
    ELSE [status |-> "fulfilled", value |-> countsOf(r)]

\* Lines 294-310: a repository after its result.
settled(repo, result) ==
    IF result.status = "fulfilled"
    THEN [repo EXCEPT !.prsOpened = result.value.prsOpened,
                      !.prsMerged = result.value.prsMerged,
                      !.issuesReadyForQA = result.value.issuesReadyForQA,
                      !.issuesQACompleted = result.value.issuesQACompleted,
                      !.isLoading = FALSE,
                      !.error = NoMessage]
    ELSE [repo EXCEPT !.isLoading = FALSE, !.error = <<"Failed to fetch data">>]

GitHubInit ==
    /\ Loaded(Snapshot(<<>>, Absent, Absent, Absent, Absent))
    /\ NotFetched
    /\ NotRefreshed

\* Lines 282-291: a click on Fetch Data, up to the await.
FetchAllRepoData ==
    /\ inFlight < MaxCycles
    /\ githubMetrics' =
           [i \in 1..Len(githubMetrics) |->
               [githubMetrics[i] EXCEPT !.isLoading = TRUE, !.error = NoMessage]]
    /\ inFlight' = inFlight + 1
    /\ UNCHANGED <<dashboardVars, csvVars, responses>>

\* Lines 293-311: the results of a cycle are in.
SettleAll ==
    /\ inFlight > 0
    /\ \E rs \in [1..Len(REPOS) -> Responses] :
           /\ responses' = rs
           /\ githubMetrics' =
                  [i \in 1..Len(githubMetrics) |->
                      settled(githubMetrics[i], fetchGitHubData(rs[i]))]
    /\ inFlight' = inFlight - 1
    /\ UNCHANGED <<dashboardVars, csvVars>>

GitHubNext == FetchAllRepoData \/ SettleAll

GitHubSpec == GitHubInit /\ [][GitHubNext]_vars

(***************************************************************************)
(* The claims.                                                             *)
(***************************************************************************)
Occ(s, x) == Cardinality({i \in 1..Len(s) : s[i] = x})
ViewRows(c) == heap[filteredData[c]]
FilterStep == metrics' = NoMetrics /\ filteredData' # NoView
DeriveStep == metrics' # NoMetrics
StoreArrays == {StoreId(c) : c \in Collections}

\* C1: a filterDataByDays call leaves every collection of the store unchanged
\* and every collection of the view it returns is a fresh array, none of them
\* the store's own array, for every window including null.
C1_FilterReturnsFreshCollections ==
    [][FilterStep =>
        /\ \A a \in StoreArrays : heap'[a] = heap[a]
        /\ \A c \in Collections : filteredData'[c] \notin StoreArrays]_vars

\* C2: a calculateDoraMetrics call changes neither the order nor the contents
\* of any array of the store or of the filtered view.
C2_DeriveModifiesNoInput ==
    [][DeriveStep => heap' = heap]_vars

\* C3: a second calculateDoraMetrics call on the same view, store, window and
\* now returns the snapshot the first call returned.
C3_DeriveIsDeterministic ==
    [][(metrics # NoMetrics /\ DeriveStep) => metrics' = metrics]_vars

\* C4: for every finite window N each collection of filterDataByDays(store, N)
\* is a sub-collection of the one of filterDataByDays(store, null), which holds
\* every row of the store.
C4_WindowViewWithinAllTimeView ==
    LET all == filterDataByDays(data, heap, Null)
    IN  \A c \in Collections :
          LET allRows == all.heap[all.view[c]]
          IN  /\ \A N \in Windows :
                   LET win == filterDataByDays(data, heap, N)
                       winRows == win.heap[win.view[c]]
                   IN  \A i \in 1..Len(winRows) :
                           Occ(winRows, winRows[i]) <= Occ(allRows, winRows[i])
              /\ data[c] # Undefined =>
                   \A i \in 1..Len(heap[data[c]]) :
                       Occ(allRows, heap[data[c]][i]) = Occ(heap[data[c]], heap[data[c]][i])

\* C4 witness: a 7-day view that holds some but not all of the deployments of
\* the store.
C4_Witness ==
    /\ filteredData # NoView
    /\ timeFilter = 7
    /\ Len(ViewRows("fact_deployment")) > 0
    /\ Len(ViewRows("fact_deployment")) < Len(heap[data.fact_deployment])

\* C5: under a finite window N a row of the store is in the view if and only
\* if its governing timestamp (the date, for a rollup row) is at or after
\* now - N days; there is no upper bound.
C5_KeptIffAtOrAfterCutoff ==
    (filteredData # NoView /\ timeFilter # Null) =>
        \A c \in Collections :
            data[c] # Undefined =>
                \A i \in 1..Len(heap[data[c]]) :
                    LET row == heap[data[c]][i]
                        t == CASE c = "fact_deployment" -> row.created_at_utc
                               [] c = "dora_summary_daily" -> row.date
                               [] c = "fact_pr" -> row.pr_merged_at_utc
                               [] c = "fact_incident" -> row.created_utc
                               [] c = "dora_events" -> row.when_utc
                    IN  Occ(ViewRows(c), row) =
                            IF t >= Now - timeFilter * Day
                            THEN Occ(heap[data[c]], row) ELSE 0

\* C5 witness: a 7-day view of a store with all five collections that keeps
\* the rows dated exactly at the cutoff and a row after now, and drops a row
\* dated half a day before the cutoff.
C5_Witness ==
    /\ filteredData # NoView
    /\ timeFilter = 7
    /\ \A c \in Collections :
        /\ data[c] # Undefined
        /\ \E i \in 1..Len(heap[data[c]]) :
               governing(c, heap[data[c]][i]) = Now - 7 * Day - 1
        /\ \E i \in 1..Len(ViewRows(c)) : governing(c, ViewRows(c)[i]) = Now - 7 * Day
    /\ \E i \in 1..Len(heap[data.fact_pr]) : heap[data.fact_pr][i].pr_merged_at_utc > Now

\* C6: the rollup, PR, incident and event collections of every view are
\* defined arrays, also when the store lacks the collection.
C6_ViewCollectionsDefined ==
    filteredData # NoView =>
        \A c \in Optional : filteredData[c] # Undefined /\ filteredData[c] \in ArrayIds

\* C6 witness: an "All Time" view of a store that lacks all four optional
\* collections.
C6_Witness ==
    /\ filteredData # NoView
    /\ timeFilter = Null
    /\ \A c \in Optional : data[c] = Undefined /\ ViewRows(c) = <<>>

\* C7: successfulDeployments + failedDeployments <= totalDeployments, with
\* equality if and only if every deployment's state is success, inactive,
\* error or failure; totalDeployments counts every deployment.  The same
\* holds of the two buckets of getDeploymentStatusCounts.
C7_SuccessPlusFailedAtMostTotal ==
    metrics # NoMetrics =>
        LET m == metrics[1]
            deployments == ViewRows("fact_deployment")
            classified == \A i \in 1..Len(deployments) :
                deployments[i].state \in {"success", "inactive", "error", "failure"}
            buckets == getDeploymentStatusCounts(deployments)
        IN  /\ m.totalDeployments = Len(deployments)
            /\ m.successfulDeployments + m.failedDeployments <= m.totalDeployments
            /\ (m.successfulDeployments + m.failedDeployments = m.totalDeployments)
                   <=> classified
            /\ buckets[1].value + buckets[2].value <= Len(deployments)
            /\ (buckets[1].value + buckets[2].value = Len(deployments)) <=> classified

\* C7 witness: a snapshot over successful, failed and otherwise-stated
\* deployments.
C7_Witness ==
    /\ metrics # NoMetrics
    /\ metrics[1].successfulDeployments > 0
    /\ metrics[1].failedDeployments > 0
    /\ metrics[1].successfulDeployments + metrics[1].failedDeployments
           < metrics[1].totalDeployments

\* C8: successRate of the snapshot and of every actor of getTeamPerformance
\* lies in [0, 100], and successRate is 0 when there are no deployments.
C8_SuccessRateInRange ==
    metrics # NoMetrics =>
        LET m == metrics[1]
            team == getTeamPerformance(ViewRows("fact_deployment"))
        IN  /\ RLe(Zero, m.successRate) /\ RLe(m.successRate, Num(100))
            /\ m.totalDeployments = 0 => m.successRate = Zero
            /\ \A p \in 1..Len(team) :
                   RLe(Zero, team[p].successRate) /\ RLe(team[p].successRate, Num(100))

\* C8 witness: a snapshot whose success rate is strictly between 0 and 100 over
\* a view with deployments of at least two actors.
C8_Witness ==
    /\ metrics # NoMetrics
    /\ RLt(Zero, metrics[1].successRate)
    /\ RLt(metrics[1].successRate, Num(100))
    /\ Len(getTeamPerformance(ViewRows("fact_deployment"))) >= 2

\* C9: whenever the view has rollup rows, mttr is the sum of mttr_min / 60 over
\* all of them, rows with deploys = 0 included, also when every row has
\* deploys = 0.
C9_MttrIsSumOverAllRollups ==
    (metrics # NoMetrics /\ Len(ViewRows("dora_summary_daily")) > 0) =>
        LET summary == ViewRows("dora_summary_daily")
        IN  metrics[1].mttr =
                Rat(Sum([i \in 1..Len(summary) |-> summary[i].mttr_min]), 60)

\* C10: when the view has a rollup row with deploys > 0, deploymentFrequency,
\* leadTime and cfr are the means of deploys, avg_lt_hours and cfr * 100 over
\* exactly the rows with deploys > 0; Scenario A gives 3, 3, 25 and mttr 1.
C10_MeansOverRowsWithDeploys ==
    metrics # NoMetrics =>
        LET m == metrics[1]
            summary == ViewRows("dora_summary_daily")
            valid == {i \in 1..Len(summary) : summary[i].deploys > 0}
            n == Cardinality(valid)
            pick(f(_)) == [i \in 1..Len(summary) |->
                              IF i \in valid THEN f(summary[i]) ELSE Zero]
        IN  /\ n > 0 =>
                /\ RMul(m.deploymentFrequency, Num(n)) = RSum(pick(LAMBDA r : Num(r.deploys)))
                /\ RMul(m.leadTime, Num(n)) = RSum(pick(LAMBDA r : Num(r.avg_lt_hours)))
                /\ RMul(m.cfr, Num(n)) = RSum(pick(LAMBDA r : RMul(r.cfr, Num(100))))
            /\ summary = <<Rollup(Now - 3, 2, 1, <<1, 2>>, 4, 60),
                           Rollup(Now - 1, 4, 0, <<0, 1>>, 2, 0)>> =>
                /\ m.deploymentFrequency = Num(3)
                /\ m.leadTime = Num(3)
                /\ m.cfr = Num(25)
                /\ m.mttr = Num(1)

\* C10 witness: the snapshot of Scenario A.
C10_Witness ==
    /\ metrics # NoMetrics
    /\ ViewRows("dora_summary_daily") =
           <<Rollup(Now - 3, 2, 1, <<1, 2>>, 4, 60), Rollup(Now - 1, 4, 0, <<0, 1>>, 2, 0)>>
    /\ metrics[1].deploymentFrequency = Num(3)

StoreDeployments == heap[data.fact_deployment]
IncidentEvents(events) ==
    {i \in 1..Len(events) : events[i].event_type = "incident"}

\* C11 as claimed: for a store without deployments calculateDoraMetrics raises
\* no error and every numeric field of the snapshot is 0, whatever the
\* rollups, incidents, events and PRs are.
C11_NoDeploymentsAllZero ==
    Len(StoreDeployments) = 0 =>
        /\ thrown = NoError
        /\ metrics # NoMetrics =>
            LET m == metrics[1]
            IN  /\ \A f \in {"deploymentFrequency", "leadTime", "cfr", "mttr",
                            "deploymentFrequencyTrend", "leadTimeTrend", "cfrTrend",
                            "mttrTrend", "maxLeadTime", "minLeadTime",
                            "lastDeploymentLeadTime", "maxMTTR", "minMTTR",
                            "lastIncidentMTTR", "successRate"} : m[f] = Zero
                /\ \A f \in {"deploymentsYesterday", "deploymentsLastWeek",
                            "deploymentsLastMonth", "failedDeployments",
                            "successfulDeployments", "totalDeployments"} : m[f] = 0

\* C11 as amended: for a store without deployments calculateDoraMetrics raises
\* no error and the deployment counts, successRate and the lead-time extremes
\* are 0; frequency, lead time, cfr and the trends are 0 when the view has no
\* rollup rows, the MTTR extremes when it has no incidents, and mttr when it
\* has no rollup rows, no incidents and no incident events.
C11_NoDeploymentsZeroUnlessOtherRecords ==
    Len(StoreDeployments) = 0 =>
        /\ thrown = NoError
        /\ metrics # NoMetrics =>
            LET m == metrics[1]
                noRollups == Len(ViewRows("dora_summary_daily")) = 0
                noIncidents == Len(ViewRows("fact_incident")) = 0
                noEvents == IncidentEvents(ViewRows("dora_events")) = {}
            IN  /\ \A f \in {"maxLeadTime", "minLeadTime", "lastDeploymentLeadTime",
                            "successRate"} : m[f] = Zero
                /\ \A f \in {"deploymentsYesterday", "deploymentsLastWeek",
                            "deploymentsLastMonth", "failedDeployments",
                            "successfulDeployments", "totalDeployments"} : m[f] = 0
                /\ noRollups =>
                       \A f \in {"deploymentFrequency", "leadTime", "cfr",
                                "deploymentFrequencyTrend", "leadTimeTrend",
                                "cfrTrend", "mttrTrend"} : m[f] = Zero
                /\ noIncidents =>
                       \A f \in {"maxMTTR", "minMTTR", "lastIncidentMTTR"} : m[f] = Zero
                /\ (noRollups /\ noIncidents /\ noEvents) => m.mttr = Zero

\* C11 witness: a snapshot of a store without deployments whose mttr comes
\* from its incidents.
C11_Witness ==
    /\ metrics # NoMetrics
    /\ Len(StoreDeployments) = 0
    /\ Len(ViewRows("fact_incident")) > 0
    /\ metrics[1].mttr # Zero
    /\ metrics[1].deploymentFrequency = Zero

\* C12: with any of the five collections absent, filterDataByDays followed by
\* calculateDoraMetrics throws nothing, for every window, and the snapshot is
\* the one of the store with the absent collections empty.
C12_AbsentCollectionsAsEmpty ==
    [][/\ thrown' = NoError
       /\ (metrics = NoMetrics /\ metrics' # NoMetrics) =>
            LET filled == [c \in Collections |-> StoreId(c)]
                r == filterDataByDays(filled, heap, timeFilter)
            IN  metrics' = <<calculateDoraMetrics(r.view, filled, r.heap, timeFilter)>>]_vars

\* The trend of a column of the view's rollups, from the sums of its two
\* halves.
ExpectedTrend(column) ==
    LET n == Len(column)
        mid == n \div 2
        first == RSum(SubSeq(column, 1, mid))
        second == RSum(SubSeq(column, mid + 1, n))
    IN  IF n < 2 \/ mid = 0 \/ n - mid = 0 \/ second = Zero THEN Zero
        ELSE RMul(RDiv(RSub(RMul(first, Num(n - mid)), RMul(second, Num(mid))),
                       RMul(second, Num(mid))),
                  Num(100))

\* C13: each of the four trends is 0 when the rollup sequence has fewer than 2
\* rows, when a half of the split at floor(length / 2) is empty or when the
\* mean of the second half is 0, and otherwise is
\* (mean(first half) - mean(second half)) / mean(second half) * 100.
C13_TrendFromMidpointSplit ==
    metrics # NoMetrics =>
        LET m == metrics[1]
            summary == ViewRows("dora_summary_daily")
            column(f(_)) == [i \in 1..Len(summary) |-> f(summary[i])]
        IN  /\ m.deploymentFrequencyTrend =
                   ExpectedTrend(column(LAMBDA r : Num(r.deploys)))
            /\ m.leadTimeTrend = ExpectedTrend(column(LAMBDA r : Num(r.avg_lt_hours)))
            /\ m.cfrTrend = ExpectedTrend(column(LAMBDA r : r.cfr))
            /\ m.mttrTrend = ExpectedTrend(column(LAMBDA r : Rat(r.mttr_min, 60)))

\* C13 witness: a snapshot over three rollup rows with a non-zero frequency
\* trend and a zero MTTR trend.
C13_Witness ==
    /\ metrics # NoMetrics
    /\ Len(ViewRows("dora_summary_daily")) = 3
    /\ metrics[1].deploymentFrequencyTrend # Zero
    /\ metrics[1].mttrTrend = Zero

\* C14: with the unbounded window cfrTrendStatus is "good" if and only if
\* failed / total * 100 < 20 over the deployments of the whole store, taken as
\* 0% when the store has none; exactly 20% is "bad".
C14_AllTimeStatusBelowTwentyPercent ==
    (metrics # NoMetrics /\ timeFilter = Null) =>
        LET total == Len(StoreDeployments)
            failed == Cardinality({i \in 1..total :
                          StoreDeployments[i].state \in {"error", "failure"}})
        IN  (metrics[1].cfrTrendStatus = "good") <=>
                (total = 0 \/ failed * 100 < 20 * total)

\* C14 witness: an "All Time" snapshot of a store with one failed deployment
\* out of five, rated "bad".
C14_Witness ==
    /\ metrics # NoMetrics
    /\ timeFilter = Null
    /\ Len(StoreDeployments) = 5
    /\ metrics[1].failedDeployments = 1
    /\ metrics[1].cfrTrendStatus = "bad"

\* C15: with a finite window of N days cfrTrendStatus is "good" if and only
\* if the failed deployments created in [now - N, now) are at most as many as
\* those created in [now - 2N, now - N), also for stores with deployments dated
\* at or after now.
C15_FiniteStatusComparesHalfOpenPeriods ==
    (metrics # NoMetrics /\ timeFilter # Null) =>
        LET failedIn(from, to) == Cardinality({i \in 1..Len(StoreDeployments) :
                /\ StoreDeployments[i].state \in {"error", "failure"}
                /\ StoreDeployments[i].created_at_utc >= from
                /\ StoreDeployments[i].created_at_utc < to})
            current == failedIn(Now - timeFilter * Day, Now)
            previous == failedIn(Now - 2 * timeFilter * Day, Now - timeFilter * Day)
        IN  (metrics[1].cfrTrendStatus = "good") <=> (current <= previous)

\* C16: deploymentsYesterday, deploymentsLastWeek and deploymentsLastMonth
\* count the deployments of the full store created in [now - 1d, now],
\* [now - 7d, now] and [now - 30d, now], whatever the active window is.
C16_FixedLookbackCountsOverStore ==
    metrics # NoMetrics =>
        LET within(n) == Cardinality({i \in 1..Len(StoreDeployments) :
                /\ StoreDeployments[i].created_at_utc >= Now - n * Day
                /\ StoreDeployments[i].created_at_utc <= Now})
        IN  /\ metrics[1].deploymentsYesterday = within(1)
            /\ metrics[1].deploymentsLastWeek = within(7)
            /\ metrics[1].deploymentsLastMonth = within(30)

\* C16 witness: a 7-day snapshot whose view holds more deployments than the
\* last-month count, over a store with deployments of the last day and a
\* deployment dated after now.
C16_Witness ==
    /\ metrics # NoMetrics
    /\ timeFilter = 7
    /\ metrics[1].totalDeployments > metrics[1].deploymentsLastMonth
    /\ metrics[1].deploymentsYesterday > 0
    /\ \E i \in 1..Len(StoreDeployments) : StoreDeployments[i].created_at_utc > Now

\* C17: deploymentFrequencyTrendText is "0 deployments in last week" when no
\* deployment of the full store was created in the last 7 days, and otherwise
\* "<count> deployments in last week, with <rate>% success rate" with rate the
\* integer nearest to successful / count * 100, whatever the active window is.
C17_TrendTextOverLastWeek ==
    metrics # NoMetrics =>
        LET week == {i \in 1..Len(StoreDeployments) :
                /\ StoreDeployments[i].created_at_utc >= Now - 7 * Day
                /\ StoreDeployments[i].created_at_utc <= Now}
            count == Cardinality(week)
            successful == Cardinality({i \in week :
                StoreDeployments[i].state \in {"success", "inactive"}})
            text == metrics[1].deploymentFrequencyTrendText
        IN  IF count = 0 THEN text = <<0>>
            ELSE /\ Len(text) = 2
                 /\ text[1] = count
                 /\ 2 * Abs(text[2] * count - 100 * successful) <= count

\* C17 witness: a 90-day snapshot whose text reads "3 deployments in last
\* week, with 67% success rate".
C17_Witness ==
    /\ metrics # NoMetrics
    /\ timeFilter = 90
    /\ metrics[1].deploymentFrequencyTrendText = <<3, 67>>

\* C18: a deployment finished at or before its creation contributes nothing
\* to maxLeadTime, minLeadTime or the fallback mean leadTime, and is still
\* counted in totalDeployments and in the success / failure tallies by its
\* state; the extremes are 0 when no deployment has a positive duration.
C18_NonPositiveDurationsExcluded ==
    metrics # NoMetrics =>
        LET m == metrics[1]
            deployments == ViewRows("fact_deployment")
            n == Len(deployments)
            duration(i) == deployments[i].finished_at_utc - deployments[i].created_at_utc
            positive == {i \in 1..n : duration(i) > 0}
            longest == CHOOSE i \in positive : \A j \in positive : duration(j) <= duration(i)
            shortest == CHOOSE i \in positive : \A j \in positive : duration(i) <= duration(j)
            total == Sum([i \in 1..n |-> IF i \in positive THEN duration(i) ELSE 0])
        IN  /\ m.totalDeployments = n
            /\ m.successfulDeployments = Cardinality({i \in 1..n :
                   deployments[i].state \in {"success", "inactive"}})
            /\ m.failedDeployments = Cardinality({i \in 1..n :
                   deployments[i].state \in {"error", "failure"}})
            /\ IF positive = {}
               THEN m.maxLeadTime = Zero /\ m.minLeadTime = Zero
               ELSE /\ m.maxLeadTime = Rat(duration(longest) * 24, Day)
                    /\ m.minLeadTime = Rat(duration(shortest) * 24, Day)
            /\ Len(ViewRows("dora_summary_daily")) = 0 =>
                   m.leadTime = IF positive = {} THEN Zero
                                ELSE Rat(total * 24, Day * Cardinality(positive))

\* C18 witness: a snapshot without rollups over a failed deployment finished
\* before its creation, a deployment finished at its creation and one of
\* positive duration.
C18_Witness ==
    /\ metrics # NoMetrics
    /\ Len(ViewRows("dora_summary_daily")) = 0
    /\ metrics[1].failedDeployments > 0
    /\ metrics[1].maxLeadTime # Zero
    /\ \E i \in 1..Len(ViewRows("fact_deployment")) :
           /\ ViewRows("fact_deployment")[i].finished_at_utc
                  < ViewRows("fact_deployment")[i].created_at_utc
           /\ ViewRows("fact_deployment")[i].state = "error"
    /\ \E i \in 1..Len(ViewRows("fact_deployment")) :
           ViewRows("fact_deployment")[i].finished_at_utc
               = ViewRows("fact_deployment")[i].created_at_utc

\* The column of the text that feeds a field of a record.
ColumnOf(f) ==
    CASE f = "prsOpened" -> "prs_opened"
      [] f = "prsMerged" -> "prs_merged"
      [] f = "issuesReadyForQA" -> "issues_ready_for_qa"
      [] f = "issuesQACompleted" -> "issues_qa_completed"

\* A cell that is an integer: an optional sign and digits, nothing else.
ValidInteger(cell) ==
    LET ds == IF cell # <<>> /\ Head(cell) \in Signs THEN Tail(cell) ELSE cell
    IN  ds # <<>> /\ \A i \in 1..Len(ds) : ds[i] \in Digits

\* The cell of column name in a data line, "" when the line has no value for
\* it or the header has no such column.
CellOf(headers, values, name) ==
    IF \E j \in 1..Len(headers) : trim(headers[j]) = <<name>> /\ j <= Len(values)
    THEN LET j == CHOOSE k \in 1..Len(headers) :
                      trim(headers[k]) = <<name>> /\ k <= Len(values)
         IN  trim(values[j])
    ELSE <<>>

\* C19: parseCSV yields 0 for every numeric field whose cell is missing,
\* empty or not a valid integer, so that the values of the repositories and
\* the totals of SummaryCard are never NaN.
C19_InvalidCellsParseToZero ==
    ~isLoading =>
        LET lines == split(trim(csvText), LF)
            headers == split(lines[1], Comma)
        IN  /\ \A i \in 1..Len(repoMetrics) : \A f \in NumericFields :
                   LET cell == CellOf(headers, split(lines[i + 1], Comma), ColumnOf(f))
                   IN  /\ repoMetrics[i][f] # NaN
                       /\ ~ValidInteger(cell) => repoMetrics[i][f] = Zero
            /\ \A f \in NumericFields : totals(repoMetrics)[f] # NaN

\* What C20 asks of the records, given the lines of the text: none when
\* there are fewer than 2 lines, otherwise one per line after the header, with
\* the defaults (0, "", null) in every field the line has no value for.
RecordsMatchLines(lines) ==
    IF Len(lines) < 2 THEN repoMetrics = <<>>
    ELSE /\ Len(repoMetrics) = Len(lines) - 1
         /\ \A i \in 1..Len(repoMetrics) :
                LET headers == split(lines[1], Comma)
                    values == split(lines[i + 1], Comma)
                    missing(name) == \A j \in 1..Len(headers) :
                        trim(headers[j]) = <<name>> => j > Len(values)
                    r == repoMetrics[i]
                IN  /\ \A f \in NumericFields : missing(ColumnOf(f)) => r[f] = Zero
                    /\ missing("days_since_last_release") =>
                           r.daysSinceLastRelease = NullNumber
                    /\ missing("repo_name") => r.repoName = <<>>
                    /\ missing("display_name") => r.displayName = <<>>
                    /\ missing("fetched_at") => r.fetchedAt = <<>>

\* C20 as claimed: parseCSV returns one record for every line of the text
\* after the header line, with the defaults for the fields a line has no
\* value for, and no record for a text of fewer than 2 lines.
C20_OneRecordPerFurtherLine ==
    ~isLoading => RecordsMatchLines(split(csvText, LF))

\* C20 as amended: the lines are those of the text without its leading and
\* trailing white space, line breaks included; parseCSV returns one record
\* for every such line after the header line, with the defaults for the fields
\* a line has no value for, and no record when fewer than 2 such lines remain.
C20_OneRecordPerLineOfTrimmedText ==
    ~isLoading => RecordsMatchLines(split(trim(csvText), LF))

\* C20 witness: a header with prs_opened and days_since_last_release, then
\* a blank line and a full line: two records, the first all defaults.
C20_Witness ==
    /\ ~isLoading
    /\ Len(repoMetrics) = 2
    /\ repoMetrics[1].repoName = <<>>
    /\ repoMetrics[1].prsOpened = Zero
    /\ repoMetrics[1].daysSinceLastRelease = NullNumber
    /\ repoMetrics[2].prsOpened = Num(12)
    /\ repoMetrics[2].daysSinceLastRelease = Num(3)

StoreRollups == heap[data.dora_summary_daily]

\* C24: when the store keeps its rollups newest first, every row of the half
\* of the view's rollups treated as recent, summary.slice(0, floor(len / 2)),
\* is dated later than every row of the half treated as previous.
C24_RecentHalfIsLater ==
    (/\ metrics # NoMetrics
     /\ data.dora_summary_daily # Undefined
     /\ \A i, j \in 1..Len(StoreRollups) :
            i < j => StoreRollups[i].date > StoreRollups[j].date) =>
        LET summary == ViewRows("dora_summary_daily")
            midPoint == Len(summary) \div 2
        IN  \A i \in 1..midPoint : \A j \in (midPoint + 1)..Len(summary) :
                summary[i].date > summary[j].date

\* C25: without rollup rows in the view, deploymentFrequency is the number
\* of deployments of the view over max(1, days from the oldest of them to
\* now), in whatever order the deployments are supplied.
C25_FrequencySpansFromOldest ==
    (metrics # NoMetrics /\ Len(ViewRows("dora_summary_daily")) = 0) =>
        LET deployments == ViewRows("fact_deployment")
            n == Len(deployments)
            oldest == CHOOSE i \in 1..n : \A j \in 1..n :
                          deployments[i].created_at_utc <= deployments[j].created_at_utc
        IN  metrics[1].deploymentFrequency =
                IF n = 0 THEN Zero
                ELSE Rat(n, Max(1, Ceil(Now - deployments[oldest].created_at_utc, Day)))

C27_TeamListDescendingByCount ==
    metrics # NoMetrics =>
        LET deployments == ViewRows("fact_deployment")
            teamData == getTeamPerformance(deployments)
        IN  /\ \A isExpanded \in BOOLEAN :
                   LET shown == displayedMembers(deployments, isExpanded)
                   IN  \A i, j \in 1..Len(shown) :
                           i < j => shown[i].deployments >= shown[j].deployments
            /\ Sum([p \in 1..Len(teamData) |-> teamData[p].deployments])
                   = Len(deployments)

\* C21: the Dashboard starts loading with no data; the one load attempt
\* ends with loading = false; after it loading and data never change, data is
\* set by the load only, so after a load that threw the page shows "Data Loading Error"
\* for ever; the dashboard is shown only with data, filteredData and metrics
\* all present.
C21_LoadIsOneShot ==
    /\ loading = TRUE
    /\ data = NoData
    /\ <>(loading = FALSE)
    /\ [][effect = "done" => (loading' = loading /\ data' = data)]_vars
    /\ [](effect = "done" => loading = FALSE)
    /\ []((~loading /\ data = NoData) => page = "Data Loading Error")
    /\ [](page = "dashboard" =>
             (data # NoData /\ filteredData # NoView /\ metrics # NoMetrics))

\* C21 witness: the page after a load that threw.
C21_Witness == ~loading /\ data = NoData /\ page = "Data Loading Error"

\* Call k ends in this step, and how.
Ends(k) == Pending(k) /\ requests'[k].status # "pending"
Fails(k) == Pending(k) /\ requests'[k].status = "failed"
Succeeds(k) == Pending(k) /\ requests'[k].status = "ok"
NonePending == \A k \in 1..Len(requests) : ~Pending(k)

\* C22: a fetchData call that fails ends with error set to a message and
\* isLoading = false, and leaves repoMetrics and lastUpdated as they were;
\* every call ends, and at its end sets isLoading = false.
C22_FailedFetchKeepsData ==
    /\ [][\A k \in 1..MaxFetches :
            /\ Fails(k) => /\ error' # NoMessage
                           /\ repoMetrics' = repoMetrics
                           /\ lastUpdated' = lastUpdated
            /\ Ends(k) => isLoading' = FALSE]_vars
    /\ \A k \in 1..MaxFetches : [](Pending(k) => <>(~Pending(k)))

\* C22 witness: a failed refresh after a successful first fetch: the error
\* is shown with the data and the date of the first fetch.
C22_Witness ==
    /\ Len(requests) = 2
    /\ requests[1].status = "ok"
    /\ requests[2].status = "failed"
    /\ error # NoMessage
    /\ ~isLoading
    /\ repoMetrics # <<>>
    /\ lastUpdated # NoMessage

\* C23: overlapping fetches are neither cancelled nor coalesced: a switch
\* of period starts a call of its own, a call stays pending until its own
\* response arrives, and every ok response replaces repoMetrics with its
\* own data, whatever period is selected by then.
C23_LastResolvedOverwrites ==
    [][/\ \A k \in 1..MaxFetches :
            Succeeds(k) =>
                repoMetrics' \in {parseCSV(text) : text \in PeriodTexts(requests[k].days)}
       /\ Cardinality({k \in 1..Len(requests) : Ends(k)}) <= 1
       /\ \A k \in 1..Len(requests) :
            /\ requests'[k].days = requests[k].days
            /\ Len(requests') > Len(requests) => requests'[k] = requests[k]
       /\ timePeriod' # timePeriod =>
            /\ Len(requests') = Len(requests) + 1
            /\ requests'[Len(requests')] = [days |-> timePeriod', status |-> "pending"]]_vars

\* C23 witness: the period was switched from 30 to 7 days, both calls have
\* ended ok, and the data shown are those of the 30-day file.
C23_Witness ==
    /\ NonePending
    /\ Len(requests) = 2
    /\ requests[1] = [days |-> 30, status |-> "ok"]
    /\ requests[2] = [days |-> 7, status |-> "ok"]
    /\ timePeriod = 7
    /\ repoMetrics \in {parseCSV(text) : text \in PeriodTexts(30)}

\* C29: isLoading is true in every state in which a fetch is in flight.
C29_LoadingWhileInFlight ==
    (\E k \in 1..Len(requests) : Pending(k)) => isLoading

\* C30: once no request is in flight, error is set if and only if the
\* request started last has failed.
C30_ErrorIffLatestFailed ==
    (NonePending /\ Len(requests) > 0) =>
        ((error # NoMessage) <=> (requests[Len(requests)].status = "failed"))

\* The four counts of a repository.
counts(repo) ==
    <<repo.prsOpened, repo.prsMerged, repo.issuesReadyForQA, repo.issuesQACompleted>>

\* C28: a refresh cycle sets a repository's four counts only when both of
\* its requests came back ok, and then to the counts of those responses
\* with error null; otherwise the repository gets error 'Failed to fetch
\* data' and keeps all four counts; either way, each repository by its own
\* responses, and no repository is loading once the cycle has settled.  The
\* start of a cycle marks every repository as loading and changes no count.
C28_FailedRepoKeepsCounts ==
    [][/\ inFlight' < inFlight =>
            \A i \in 1..Len(REPOS) :
                /\ githubMetrics'[i].isLoading = FALSE
                /\ IF responses'[i].prs.status = "ok" /\ responses'[i].issues.status = "ok"
                   THEN /\ githubMetrics'[i].error = NoMessage
                        /\ LET c == countsOf(responses'[i])
                           IN  counts(githubMetrics'[i]) =
                                   <<c.prsOpened, c.prsMerged,
                                     c.issuesReadyForQA, c.issuesQACompleted>>
                   ELSE /\ githubMetrics'[i].error = <<"Failed to fetch data">>
                        /\ counts(githubMetrics'[i]) = counts(githubMetrics[i])
       /\ inFlight' > inFlight =>
            \A i \in 1..Len(REPOS) :
                /\ githubMetrics'[i].isLoading = TRUE
                /\ counts(githubMetrics'[i]) = counts(githubMetrics[i])]_vars

\* C28 witness: a cycle has settled in which the first repository's pulls
\* came back ok and its issues did not, after a cycle that had set its
\* counts; the second repository was updated.
C28_Witness ==
    /\ inFlight = 0
    /\ responses # <<>>
    /\ responses[1].prs.status = "ok"
    /\ responses[1].issues.status = "error"
    /\ githubMetrics[1].error = <<"Failed to fetch data">>
    /\ githubMetrics[1].prsOpened = 2
    /\ countsOf(responses[1]).prsOpened = 1
    /\ githubMetrics[2].error = NoMessage
    /\ counts(githubMetrics[2]) = <<1, 1, 1, 1>>
    /\ \A i \in 1..Len(REPOS) : ~githubMetrics[i].isLoading

====
